---------------------------- MODULE Spec2Model ----------------------------
(***************************************************************************)
(* Model of streamlit_app.py: the YouTube-transcript-to-.docx request      *)
(* handler (main) and its helpers extract_video_id, get_transcript,        *)
(* format_transcript and save_to_docx.                                     *)
(*                                                                         *)
(* Text that the program parses or splits (URLs, caption text, formatted   *)
(* text) is a sequence of one-character strings, so that urlparse,         *)
(* parse_qs, str.split, str.join and str.lstrip are computed character by  *)
(* character.  Fixed user-interface messages are TLA+ strings.             *)
(***************************************************************************)
EXTENDS Integers, Sequences, FiniteSets, TLC

VARIABLES
    pc,             \* position of the request inside main()
    video_url,      \* st.text_input value (line 89)
    video_id,       \* result of extract_video_id (line 97)
    languages,      \* the languages argument of get_transcript (line 37)
    transcript,     \* value returned by get_transcript (line 98)
    formatted_text, \* result of format_transcript (line 101)
    paragraphs,     \* paragraphs added to the document by save_to_docx
    fs,             \* names of the files that exist on the filesystem
    messages,       \* what st.error / st.warning / st.success have shown
    escaped,        \* class of the exception that left main(), or "none"
    trace,          \* the steps this request has taken, with their outcome
    tracks,         \* captions service: the track of each language, None if none
    disabled,       \* captions service: captions are disabled for the video
    changed,        \* the video was changed between the two service calls
    seen,           \* what the service call answered from (for get_transcript)
    cause,          \* why this request's lookup failed, or "none"
    prev,           \* cause and reported outcome of the previous request's lookup
    requests,       \* number of requests (script runs) so far
    fs0,            \* the filesystem as it was when the request began
    created,        \* this request has written its output file
    expect          \* the identifier that the shape of the input calls for

vars == << pc, video_url, video_id, languages, transcript, formatted_text,
           paragraphs, fs, messages, escaped, trace, tracks, disabled, changed,
           seen, cause, prev, requests, fs0, created, expect >>

-----------------------------------------------------------------------------
(* Bounds of the model.                                                    *)

MaxRequests == 2    \* script runs in a row (the filesystem persists)
MaxLangs    == 2    \* length of a language-preference list
MaxTrackLen == 1    \* caption entries in one track of the captions service
MaxEntries  == 2    \* caption entries given to the formatter
MaxTextLen  == 2    \* characters in one caption text

-----------------------------------------------------------------------------
(* Strings as character sequences.                                         *)

Min(S) == CHOOSE x \in S : \A y \in S : x <= y

\* str.find(p): index of the first occurrence of p in s, 0 if there is none
Find(s, p) ==
    LET hits == { i \in 1..(Len(s) - Len(p) + 1) : SubSeq(s, i, i + Len(p) - 1) = p }
    IN  IF hits = {} THEN 0 ELSE Min(hits)

\* p in s
Contains(s, p) == Find(s, p) # 0

\* s.split(sep): cut at every occurrence of sep, scanning left to right
RECURSIVE Split(_, _)
Split(s, sep) ==
    LET i == Find(s, sep)
    IN  IF i = 0 THEN << s >>
        ELSE << SubSeq(s, 1, i - 1) >> \o Split(SubSeq(s, i + Len(sep), Len(s)), sep)

\* s.split(sep, 1): cut at the first occurrence only
Split1(s, sep) ==
    LET i == Find(s, sep)
    IN  IF i = 0 THEN << s >>
        ELSE << SubSeq(s, 1, i - 1), SubSeq(s, i + Len(sep), Len(s)) >>

\* sep.join(parts)
RECURSIVE Join(_, _)
Join(parts, sep) ==
    IF parts = << >> THEN << >>
    ELSE IF Len(parts) = 1 THEN parts[1]
    ELSE parts[1] \o sep \o Join(Tail(parts), sep)

\* s.lstrip(c)
RECURSIVE LStrip(_, _)
LStrip(s, cs) == IF s # << >> /\ s[1] \in cs THEN LStrip(Tail(s), cs) ELSE s

\* s.strip(): whitespace removed at both ends
RECURSIVE RStrip(_, _)
RStrip(s, cs) ==
    IF s # << >> /\ s[Len(s)] \in cs THEN RStrip(SubSeq(s, 1, Len(s) - 1), cs) ELSE s

Whitespace == { " ", "\n" }

Strip(s) == RStrip(LStrip(s, Whitespace), Whitespace)

-----------------------------------------------------------------------------
(* urllib.parse as extract_video_id uses it.  The inputs of the model hold *)
(* no ';', '%', '+', '[' or leading whitespace, so params splitting,       *)
(* unquoting and the bracket check of urlsplit do not come into play.      *)

Letters == { "a", "b", "c", "d", "e", "f", "g", "h", "i", "j", "k", "l", "m",
             "n", "o", "p", "q", "r", "s", "t", "u", "v", "w", "x", "y", "z" }
Digits  == { "0", "1", "2", "3", "4", "5", "6", "7", "8", "9" }
SchemeChars == Letters \cup Digits \cup { "+", "-", "." }

\* _splitnetloc(url, 2): the netloc runs to the first of '/', '?', '#'
SplitNetloc(url) ==
    LET stops == { i \in 3..Len(url) : url[i] \in { "/", "?", "#" } }
        delim == IF stops = {} THEN Len(url) + 1 ELSE Min(stops)
    IN  << SubSeq(url, 3, delim - 1), SubSeq(url, delim, Len(url)) >>

urlparse(url) ==
    LET i  == Find(url, << ":" >>)
        hasScheme == /\ i > 0
                     /\ url[1] \in Letters
                     /\ \A k \in 1..(i - 1) : url[k] \in SchemeChars
        scheme == IF hasScheme THEN SubSeq(url, 1, i - 1) ELSE << >>
        u1 == IF hasScheme THEN SubSeq(url, i + 1, Len(url)) ELSE url
        hasNetloc == Len(u1) >= 2 /\ SubSeq(u1, 1, 2) = << "/", "/" >>
        netloc == IF hasNetloc THEN SplitNetloc(u1)[1] ELSE << >>
        u2 == IF hasNetloc THEN SplitNetloc(u1)[2] ELSE u1
        u3 == Split1(u2, << "#" >>)[1]
        pq == Split1(u3, << "?" >>)
    IN  [ scheme |-> scheme,
          netloc |-> netloc,
          path   |-> pq[1],
          query  |-> IF Len(pq) = 2 THEN pq[2] ELSE << >> ]

\* parse_qs(query).get(name): the non-blank values of the pairs called name,
\* in order; << >> stands for None (no such key)
RECURSIVE QsValues(_, _)
QsValues(pairs, name) ==
    IF pairs = << >> THEN << >>
    ELSE LET nv == Split1(pairs[1], << "=" >>)
             rest == QsValues(Tail(pairs), name)
         IN  IF Len(nv) = 2 /\ nv[2] # << >> /\ nv[1] = name
             THEN << nv[2] >> \o rest
             ELSE rest

parse_qs_get(query, name) == QsValues(Split(query, << "&" >>), name)

-----------------------------------------------------------------------------
(* extract_video_id, lines 7-35.  The result is the returned identifier or *)
(* the ValueError the function raises: every exception raised inside the   *)
(* try block, the ValueErrors of lines 22, 28, 33 and the IndexError of    *)
(* line 21 alike, is caught at line 34 and raised again as a ValueError.   *)

Returned(v) == [ ok |-> TRUE, value |-> v ]
Raised(cls, text) == [ ok |-> FALSE, cls |-> cls, text |-> text ]

YOUTUBE_COM == << "y", "o", "u", "t", "u", "b", "e", ".", "c", "o", "m" >>
YOUTU_BE    == << "y", "o", "u", "t", "u", ".", "b", "e" >>
EMBED       == << "e", "m", "b", "e", "d" >>

extract_video_id(url) ==
    LET parsed_url == urlparse(url)
        v_values   == parse_qs_get(parsed_url.query, << "v" >>)
        path_parts == Split(parsed_url.path, << "/" >>)
        short_id   == LStrip(parsed_url.path, { "/" })
    IN  IF Contains(parsed_url.netloc, YOUTUBE_COM)
        THEN IF v_values # << >>
             THEN Returned(v_values[1])
             ELSE IF Len(path_parts) >= 2 /\ path_parts[2] = EMBED
                  THEN IF Len(path_parts) >= 3
                       THEN Returned(path_parts[3])
                       ELSE Raised("ValueError", "Invalid YouTube URL: list index out of range")
                  ELSE Raised("ValueError",
                              "Invalid YouTube URL: Invalid YouTube URL: video ID not found.")
        ELSE IF Contains(parsed_url.netloc, YOUTU_BE)
        THEN IF short_id # << >>
             THEN Returned(short_id)
             ELSE Raised("ValueError",
                         "Invalid YouTube URL: Invalid YouTube URL: video ID not found.")
        ELSE IF Len(url) = 11
             THEN Returned(url)
             ELSE Raised("ValueError", "Invalid YouTube URL: Invalid YouTube URL.")

-----------------------------------------------------------------------------
(* The inputs given to the resolver.  An input is put together from a      *)
(* scheme, a host, a path and a query; each part carries what it means, so *)
(* that the identifier an input calls for is read off the parts and not    *)
(* computed by parsing.                                                    *)

VIDEO == << "a", "b", "c", "1", "2", "3", "4", "5", "6", "7", "8" >>

Schemes ==
    { [ text |-> << >>, host |-> FALSE ],
      [ text |-> << "h", "t", "t", "p", "s", ":", "/", "/" >>, host |-> TRUE ],
      [ text |-> << "/", "/" >>, host |-> TRUE ] }

Hosts ==
    { [ text |-> << >>, site |-> "other" ],
      [ text |-> YOUTUBE_COM, site |-> "youtube" ],
      [ text |-> << "w", "w", "w", "." >> \o YOUTUBE_COM, site |-> "youtube" ],
      [ text |-> YOUTU_BE, site |-> "short" ],
      [ text |-> << "v", "i", "m", "e", "o", ".", "c", "o", "m" >>, site |-> "other" ] }

\* embed: the segment after /embed/ (<< >> if there is none);
\* rest: the path without its leading slash
Paths ==
    { [ text |-> << >>, embed |-> << >>, rest |-> << >> ],
      [ text |-> << "/" >>, embed |-> << >>, rest |-> << >> ],
      [ text |-> << "/", "w", "a", "t", "c", "h" >>, embed |-> << >>,
        rest |-> << "w", "a", "t", "c", "h" >> ],
      [ text |-> << "/" >> \o EMBED, embed |-> << >>, rest |-> EMBED ],
      [ text |-> << "/" >> \o EMBED \o << "/" >>, embed |-> << >>,
        rest |-> EMBED \o << "/" >> ],
      [ text |-> << "/" >> \o EMBED \o << "/" >> \o VIDEO, embed |-> VIDEO,
        rest |-> EMBED \o << "/" >> \o VIDEO ],
      [ text |-> << "/" >> \o VIDEO, embed |-> << >>, rest |-> VIDEO ] }

\* v: the value of the v parameter (<< >> if there is none or it is blank)
Queries ==
    { [ text |-> << >>, v |-> << >> ],
      [ text |-> << "?", "v", "=" >> \o VIDEO, v |-> VIDEO ],
      [ text |-> << "?", "v", "=" >>, v |-> << >> ],
      [ text |-> << "?", "v" >>, v |-> << >> ],
      [ text |-> << "?", "t", "=", "1" >>, v |-> << >> ],
      [ text |-> << "?", "t", "=", "1", "&", "v", "=" >> \o VIDEO, v |-> VIDEO ],
      [ text |-> << "?", "v", "=" >> \o VIDEO \o << "&", "t", "=", "1" >>, v |-> VIDEO ] }

UrlInputs == [ scheme : Schemes, host : Hosts, path : Paths, query : Queries ]

Compose(in) == in.scheme.text \o in.host.text \o in.path.text \o in.query.text

\* What the resolver is to answer for an input (section 4.1 of the
\* specification): the v value or the /embed/ segment on a youtube.com host,
\* the path on a youtu.be host, the input itself when it is 11 characters long
\* and has neither host, and a failure for everything else.
Expected(in) ==
    LET site == IF in.scheme.host THEN in.host.site ELSE "other"
    IN  IF site = "youtube"
        THEN IF in.query.v # << >> THEN [ ok |-> TRUE, value |-> in.query.v ]
             ELSE IF in.path.embed # << >> THEN [ ok |-> TRUE, value |-> in.path.embed ]
             ELSE [ ok |-> FALSE, value |-> << >> ]
        ELSE IF site = "short"
        THEN IF in.path.rest # << >> THEN [ ok |-> TRUE, value |-> in.path.rest ]
             ELSE [ ok |-> FALSE, value |-> << >> ]
        ELSE IF Len(Compose(in)) = 11 THEN [ ok |-> TRUE, value |-> Compose(in) ]
             ELSE [ ok |-> FALSE, value |-> << >> ]

-----------------------------------------------------------------------------
(* format_transcript, lines 57-66, and the split of save_to_docx, line 77. *)
(* A caption entry is [start, text]; start is in hundredths of a second,   *)
(* the precision "{start:.2f}" prints.                                     *)

PARAGRAPH_SEP == << "\n", "\n" >>

Digit(d) == CASE d = 0 -> "0" [] d = 1 -> "1" [] d = 2 -> "2" [] d = 3 -> "3"
              [] d = 4 -> "4" [] d = 5 -> "5" [] d = 6 -> "6" [] d = 7 -> "7"
              [] d = 8 -> "8" [] d = 9 -> "9"

RECURSIVE Decimal(_)
Decimal(n) == IF n < 10 THEN << Digit(n) >> ELSE Decimal(n \div 10) \o << Digit(n % 10) >>

\* f"{start:.2f}"
Fixed2(start) ==
    Decimal(start \div 100) \o << ".", Digit((start % 100) \div 10), Digit(start % 10) >>

\* f"[{start:.2f}s] {text}"
FormatEntry(entry) == << "[" >> \o Fixed2(entry.start) \o << "s", "]", " " >> \o entry.text

format_transcript(transcript_data) ==
    Join([ i \in 1..Len(transcript_data) |-> FormatEntry(transcript_data[i]) ],
         PARAGRAPH_SEP)

\* the paragraphs save_to_docx adds to the document
DocxParagraphs(text) == Split(text, PARAGRAPH_SEP)

\* f"{video_id}_transcript.docx", line 102
Filename(id) == id \o << "_", "t", "r", "a", "n", "s", "c", "r", "i", "p", "t",
                         ".", "d", "o", "c", "x" >>

-----------------------------------------------------------------------------
(* The captions service (youtube_transcript_api), as get_transcript calls  *)
(* it.  A video has, per language, a track of caption entries or none, and *)
(* may have its captions disabled.  A call answers with the track of the   *)
(* first requested language that has one, or raises NoTranscriptFound,     *)
(* TranscriptsDisabled, or any other exception (a transport failure).      *)

Langs   == { "ja", "en", "fr" }
None    == [ some |-> FALSE, value |-> << >> ]
Some(v) == [ some |-> TRUE, value |-> v ]

LangChar(l) == CASE l = "ja" -> "j" [] l = "en" -> "e" [] l = "fr" -> "f"

\* the caption entries of the track of language l when it has n of them
TrackOf(l, n) == [ i \in 1..n |-> [ start |-> (i - 1) * 250, text |-> << LangChar(l) >> ] ]

\* what a video can hold for language l: no track (None) or a track
TrackChoices(l) == { None } \cup { Some(TrackOf(l, n)) : n \in 0..MaxTrackLen }

Range(f) == { f[i] : i \in DOMAIN f }

\* the videos that differ in the tracks of the languages of langs only: the
\* tracks of the other languages have no part in a call for langs
VideoTracks(langs) ==
    { trk \in [ Langs -> UNION { TrackChoices(l) : l \in Langs } ] :
        \A l \in Langs : /\ trk[l] \in TrackChoices(l)
                         /\ l \notin Range(langs) => trk[l] = None }

\* the texts an exception of the service can carry (str(e))
ExcTexts == { "text1", "text2" }

\* the first language of the list that has a track, "" if none has
RECURSIVE FirstAvailable(_, _)
FirstAvailable(trk, langs) ==
    IF langs = << >> THEN ""
    ELSE IF trk[langs[1]].some THEN langs[1]
    ELSE FirstAvailable(trk, Tail(langs))

\* the answer of one service call: fault is "none" or the class raised by a
\* failure of the call itself
ServiceAnswer(trk, dis, langs, fault, text) ==
    LET l == FirstAvailable(trk, langs)
    IN  IF fault # "none" THEN Raised(fault, text)
        ELSE IF dis THEN Raised("TranscriptsDisabled", text)
        ELSE IF l = "" THEN Raised("NoTranscriptFound", text)
        ELSE Returned(trk[l].value)

-----------------------------------------------------------------------------
(* The request handler main(), lines 81-117, one action per step.          *)

Msg(level, text, arg) == [ level |-> level, text |-> text, arg |-> arg ]

NoPrev == [ cause |-> "none", value |-> None, shown |-> << >> ]

Terminal == { "returned", "raised" }

BLANK == << " ", " " >>

\* what the user types into the form
RequestInputs ==
    { [ text |-> BLANK, expect |-> [ ok |-> FALSE, value |-> << >> ] ],
      [ text |-> VIDEO, expect |-> [ ok |-> TRUE, value |-> VIDEO ] ],
      [ text |-> << "h", "t", "t", "p", "s", ":", "/", "/", "w", "w", "w", "." >>
                   \o YOUTUBE_COM \o << "/", "w", "a", "t", "c", "h", "?", "v", "=" >>
                   \o VIDEO,
        expect |-> [ ok |-> TRUE, value |-> VIDEO ] ],
      [ text |-> << "a", "b", "c" >>, expect |-> [ ok |-> FALSE, value |-> << >> ] ],
      [ text |-> << "h", "t", "t", "p", "s", ":", "/", "/" >> \o YOUTUBE_COM
                   \o << "/" >> \o EMBED \o << "/" >>,
        expect |-> [ ok |-> FALSE, value |-> << >> ] ] }

\* the inputs the resolver is checked on
ResolverInputs ==
    { [ text |-> Compose(in), expect |-> Expected(in) ] : in \in UrlInputs }
    \cup { [ text |-> VIDEO, expect |-> [ ok |-> TRUE, value |-> VIDEO ] ],
           [ text |-> VIDEO \o << "9" >>, expect |-> [ ok |-> FALSE, value |-> << >> ] ],
           [ text |-> << "a", "b", "c" >>, expect |-> [ ok |-> FALSE, value |-> << >> ] ] }

\* main's except clause, lines 116-117: a ValueError is shown with st.error and
\* main returns; an exception of any other class leaves main
MainExcept(cls, text, shown) ==
    IF cls = "ValueError"
    THEN /\ messages' = Append(shown, Msg("error", "", text))
         /\ pc' = "returned"
         /\ UNCHANGED escaped
    ELSE /\ messages' = shown
         /\ pc' = "raised"
         /\ escaped' = cls

\* the user enters a URL and presses "Generate Transcript": the script runs
Submit ==
    /\ pc \in { "idle" } \cup Terminal
    /\ requests < MaxRequests
    /\ \E in \in RequestInputs :
         /\ video_url' = in.text
         /\ expect' = in.expect
    /\ pc' = "clicked"
    /\ requests' = requests + 1
    /\ prev' = IF cause # "none"
               THEN [ cause |-> cause, value |-> transcript, shown |-> messages ]
               ELSE prev
    /\ video_id' = << >>
    /\ transcript' = None
    /\ formatted_text' = << >>
    /\ paragraphs' = << >>
    /\ messages' = << >>
    /\ escaped' = "none"
    /\ trace' = << >>
    /\ seen' = << >>
    /\ cause' = "none"
    /\ created' = FALSE
    /\ fs0' = fs
    /\ UNCHANGED << languages, fs, tracks, disabled, changed >>

\* lines 92-94
CheckInput ==
    /\ pc = "clicked"
    /\ IF Strip(video_url) = << >>
       THEN /\ messages' = Append(messages,
                                  Msg("error", "Please enter a valid YouTube video URL.", ""))
            /\ pc' = "returned"
       ELSE /\ pc' = "resolve"
            /\ UNCHANGED messages
    /\ UNCHANGED << video_url, video_id, languages, transcript, formatted_text,
                    paragraphs, fs, escaped, trace, tracks, disabled, changed,
                    seen, cause, prev, requests, fs0, created, expect >>

\* line 97, and lines 116-117 for its ValueError
Resolve ==
    /\ pc = "resolve"
    /\ LET r == extract_video_id(video_url)
       IN  IF r.ok
           THEN /\ video_id' = r.value
                /\ pc' = "fetch_direct"
                /\ trace' = Append(trace, << "resolve", "ok" >>)
                /\ UNCHANGED << messages, escaped >>
           ELSE /\ MainExcept(r.cls, r.text, messages)
                /\ trace' = Append(trace, << "resolve", r.cls >>)
                /\ UNCHANGED video_id
    /\ UNCHANGED << video_url, languages, transcript, formatted_text, paragraphs,
                    fs, tracks, disabled, changed, seen, cause, prev, requests,
                    fs0, created, expect >>

-----------------------------------------------------------------------------
(* get_transcript, lines 37-55.                                            *)

\* the languages both service calls are made with (languages=languages at
\* line 42, find_transcript(languages) at line 46)
RequestedLanguages_firstOnly == << languages[1] >>

RequestedLanguages == languages

\* "except NoTranscriptFound:", line 43: the one exception of the direct
\* fetch that leads to the fallback listing
FallbackOn_anyError(cls) == TRUE

FallbackOn(cls) == cls = "NoTranscriptFound"

\* what a call can suffer by itself: nothing, or a failure that is neither
\* NoTranscriptFound nor TranscriptsDisabled
CallFaults == { "none", "Other" }

Snapshot(fault) == [ tracks |-> tracks, disabled |-> disabled, fault |-> fault ]

\* line 42, and the handlers of lines 43, 50-52 and 53-55
DirectFetch ==
    /\ pc = "fetch_direct"
    /\ \E fault \in CallFaults, text \in ExcTexts :
         LET r == ServiceAnswer(tracks, disabled, RequestedLanguages, fault, text)
         IN  /\ seen' = Append(seen, Snapshot(fault))
             /\ IF r.ok
                THEN /\ transcript' = Some(r.value)
                     /\ pc' = "check"
                     /\ trace' = Append(trace, << "direct", "ok" >>)
                     /\ UNCHANGED << messages, cause >>
                ELSE /\ trace' = Append(trace, << "direct", r.cls >>)
                     /\ IF FallbackOn(r.cls)
                        THEN /\ pc' = "fetch_list"
                             /\ UNCHANGED << transcript, messages, cause >>
                        ELSE IF r.cls = "TranscriptsDisabled"
                        THEN /\ messages' = Append(messages,
                                 Msg("warning", "Subtitles are disabled for this video.", ""))
                             /\ transcript' = None
                             /\ cause' = "Disabled"
                             /\ pc' = "check"
                        ELSE /\ messages' = Append(messages,
                                 Msg("error", "Unexpected error: ", r.text))
                             /\ transcript' = None
                             /\ cause' = "TransportError"
                             /\ pc' = "check"
    /\ UNCHANGED << video_url, video_id, languages, formatted_text, paragraphs, fs,
                    escaped, tracks, disabled, changed, prev, requests, fs0,
                    created, expect >>

\* lines 45-46, and the handler of lines 47-49
ListFetch ==
    /\ pc = "fetch_list"
    /\ \E fault \in CallFaults, text \in ExcTexts :
         LET r == ServiceAnswer(tracks, disabled, RequestedLanguages, fault, text)
         IN  /\ seen' = Append(seen, Snapshot(fault))
             /\ pc' = "check"
             /\ IF r.ok
                THEN /\ transcript' = Some(r.value)
                     /\ trace' = Append(trace, << "list", "ok" >>)
                     /\ UNCHANGED << messages, cause >>
                ELSE /\ trace' = Append(trace, << "list", r.cls >>)
                     /\ messages' = Append(messages,
                                           Msg("error", "Transcript error: ", r.text))
                     /\ transcript' = None
                     /\ cause' = IF r.cls = "NoTranscriptFound" THEN "NotFound"
                                 ELSE IF r.cls = "TranscriptsDisabled" THEN "Disabled"
                                 ELSE "TransportError"
    /\ UNCHANGED << video_url, video_id, languages, formatted_text, paragraphs, fs,
                    escaped, tracks, disabled, changed, prev, requests, fs0,
                    created, expect >>

\* The world outside: between the two calls of get_transcript the video's
\* owner adds or removes tracks of the requested languages, or switches the
\* captions off or on.  The second call is a request of its own and answers
\* from the video as it then is.
VideoChanges ==
    /\ pc = "fetch_list"
    /\ ~changed
    /\ \E trk \in VideoTracks(languages), dis \in BOOLEAN :
         /\ << trk, dis >> # << tracks, disabled >>
         /\ \A l \in Langs \ Range(languages) : trk[l] = tracks[l]
         /\ tracks' = trk
         /\ disabled' = dis
    /\ changed' = TRUE
    /\ UNCHANGED << pc, video_url, video_id, languages, transcript, formatted_text,
                    paragraphs, fs, messages, escaped, trace, seen, cause, prev,
                    requests, fs0, created, expect >>

-----------------------------------------------------------------------------
(* main(), lines 100-115.                                                  *)

\* the truth value of "if transcript:", line 100: None and the empty list
\* are both false
Truthy_notNone(t) == t.some

Truthy(t) == t.some /\ t.value # << >>

\* line 100, "if transcript:", and the else branch of lines 114-115
Check ==
    /\ pc = "check"
    /\ IF Truthy(transcript)
       THEN /\ pc' = "format"
            /\ UNCHANGED messages
       ELSE /\ messages' = Append(messages,
                Msg("warning", "Transcript not available in Japanese or English.", ""))
            /\ pc' = "returned"
    /\ UNCHANGED << video_url, video_id, languages, transcript, formatted_text,
                    paragraphs, fs, escaped, trace, tracks, disabled, changed,
                    seen, cause, prev, requests, fs0, created, expect >>

\* line 101.  The entries the service returns hold 'start' and 'text', so
\* lines 63-65 succeed on them; None cannot be iterated (TypeError, line 62).
Format ==
    /\ pc = "format"
    /\ LET cls == IF transcript.some THEN "none" ELSE "TypeError"
       IN  /\ trace' = Append(trace, << "format", IF cls = "none" THEN "ok" ELSE cls >>)
           /\ IF cls = "none"
              THEN /\ formatted_text' = format_transcript(transcript.value)
                   /\ pc' = "save"
                   /\ UNCHANGED << messages, escaped >>
              ELSE /\ MainExcept(cls, "", messages)
                   /\ UNCHANGED formatted_text
    /\ UNCHANGED << video_url, video_id, languages, transcript, paragraphs, fs,
                    tracks, disabled, changed, seen, cause, prev, requests, fs0,
                    created, expect >>

\* How save_to_docx can end: the document is written; add_paragraph or the
\* file name is refused with a ValueError before anything is written; or
\* writing fails with an OSError, before or after the file came to exist.
SaveOutcomes ==
    { [ cls |-> "none",       wrote |-> TRUE ],
      [ cls |-> "ValueError", wrote |-> FALSE ],
      [ cls |-> "OSError",    wrote |-> FALSE ],
      [ cls |-> "OSError",    wrote |-> TRUE ] }

\* lines 102-103, save_to_docx lines 68-79
Save ==
    /\ pc = "save"
    /\ \E out \in SaveOutcomes, text \in ExcTexts :
         /\ trace' = Append(trace, << "save", IF out.cls = "none" THEN "ok" ELSE out.cls >>)
         /\ fs' = IF out.wrote THEN fs \cup { Filename(video_id) } ELSE fs
         /\ created' = out.wrote
         /\ IF out.cls = "none"
            THEN /\ paragraphs' = DocxParagraphs(formatted_text)
                 /\ pc' = "open"
                 /\ UNCHANGED << messages, escaped >>
            ELSE /\ MainExcept(out.cls, text, messages)
                 /\ UNCHANGED paragraphs
    /\ UNCHANGED << video_url, video_id, languages, transcript, formatted_text,
                    tracks, disabled, changed, seen, cause, prev, requests, fs0,
                    expect >>

\* line 105, open(filename, "rb")
Open ==
    /\ pc = "open"
    /\ \E fault \in { "none", "OSError" } :
         /\ trace' = Append(trace, << "open", IF fault = "none" THEN "ok" ELSE fault >>)
         /\ IF fault = "none"
            THEN /\ pc' = "offer"
                 /\ UNCHANGED << messages, escaped >>
            ELSE MainExcept(fault, "", messages)
    /\ UNCHANGED << video_url, video_id, languages, transcript, formatted_text,
                    paragraphs, fs, tracks, disabled, changed, seen, cause, prev,
                    requests, fs0, created, expect >>

\* lines 106-112: st.success, then st.download_button; leaving the with block
\* closes the file, and an exception passes over line 113
Offer ==
    /\ pc = "offer"
    /\ \E fault \in { "none", "ValueError", "Other" }, text \in ExcTexts :
         LET shown == Append(messages,
                             Msg("success", "Transcript generated successfully!", ""))
         IN  /\ trace' = Append(trace, << "offer", IF fault = "none" THEN "ok" ELSE fault >>)
             /\ IF fault = "none"
                THEN /\ pc' = "remove"
                     /\ messages' = shown
                     /\ UNCHANGED escaped
                ELSE MainExcept(fault, text, shown)
    /\ UNCHANGED << video_url, video_id, languages, transcript, formatted_text,
                    paragraphs, fs, tracks, disabled, changed, seen, cause, prev,
                    requests, fs0, created, expect >>

\* the filesystem after os.remove(name)
RemoveFile_noop(files, name) == files

RemoveFile(files, name) == files \ { name }

\* line 113, os.remove(filename)
Remove ==
    /\ pc = "remove"
    /\ \E fault \in { "none", "OSError" } :
         /\ trace' = Append(trace, << "remove", IF fault = "none" THEN "ok" ELSE fault >>)
         /\ IF fault = "none"
            THEN /\ fs' = RemoveFile(fs, Filename(video_id))
                 /\ pc' = "returned"
                 /\ UNCHANGED << messages, escaped >>
            ELSE /\ MainExcept(fault, "", messages)
                 /\ UNCHANGED fs
    /\ UNCHANGED << video_url, video_id, languages, transcript, formatted_text,
                    paragraphs, tracks, disabled, changed, seen, cause, prev,
                    requests, fs0, created, expect >>

-----------------------------------------------------------------------------
(* Specifications.                                                         *)

\* what no step has touched yet
Fresh ==
    /\ video_id = << >>
    /\ transcript = None
    /\ formatted_text = << >>
    /\ paragraphs = << >>
    /\ fs = {}
    /\ fs0 = {}
    /\ created = FALSE
    /\ messages = << >>
    /\ escaped = "none"
    /\ trace = << >>
    /\ seen = << >>
    /\ cause = "none"
    /\ prev = NoPrev
    /\ changed = FALSE

\* The application: the script is loaded, the form is empty, main() passes
\* ['ja', 'en'] to get_transcript (line 98).
Init ==
    /\ pc = "idle"
    /\ video_url = << >>
    /\ expect = [ ok |-> FALSE, value |-> << >> ]
    /\ languages = << "ja", "en" >>
    /\ tracks \in VideoTracks(languages)
    /\ disabled \in BOOLEAN
    /\ requests = 0
    /\ Fresh

Next ==
    \/ Submit
    \/ CheckInput
    \/ Resolve
    \/ DirectFetch
    \/ ListFetch
    \/ VideoChanges
    \/ Check
    \/ Format
    \/ Save
    \/ Open
    \/ Offer
    \/ Remove

Spec == Init /\ [][Next]_vars

\* extract_video_id on its own: one call on each input
InitResolve ==
    /\ pc = "resolve"
    /\ \E in \in ResolverInputs :
         /\ video_url = in.text
         /\ expect = in.expect
    /\ languages = << "ja", "en" >>
    /\ tracks = [ l \in Langs |-> None ]
    /\ disabled = FALSE
    /\ requests = MaxRequests
    /\ Fresh

NextResolve == Resolve

SpecResolve == InitResolve /\ [][NextResolve]_vars

\* the language-preference lists: up to MaxLangs different languages
LangLists ==
    { ls \in UNION { [ 1..n -> Langs ] : n \in 1..MaxLangs } :
        \A i, j \in DOMAIN ls : i # j => ls[i] # ls[j] }

\* get_transcript on its own: one call for each video and each list
InitFetch ==
    /\ pc = "fetch_direct"
    /\ video_url = VIDEO
    /\ expect = [ ok |-> TRUE, value |-> VIDEO ]
    /\ languages \in LangLists
    /\ tracks \in VideoTracks(languages)
    /\ disabled \in BOOLEAN
    /\ requests = MaxRequests
    /\ Fresh

NextFetch ==
    \/ DirectFetch
    \/ ListFetch
    \/ VideoChanges

SpecFetch == InitFetch /\ [][NextFetch]_vars

\* the caption texts and entries the formatter is checked on
TextChars == { "a", "\n" }

Texts == UNION { [ 1..n -> TextChars ] : n \in 0..MaxTextLen }

EntrySet == [ start : { 0, 6150 }, text : Texts ]

EntrySeqs == UNION { [ 1..n -> EntrySet ] : n \in 0..MaxEntries }

\* format_transcript and save_to_docx on their own: one call on each sequence
InitFormat ==
    /\ pc = "format"
    /\ video_url = VIDEO
    /\ expect = [ ok |-> TRUE, value |-> VIDEO ]
    /\ languages = << "ja", "en" >>
    /\ tracks = [ l \in Langs |-> None ]
    /\ disabled = FALSE
    /\ requests = MaxRequests
    /\ \E es \in EntrySeqs : transcript = Some(es)
    /\ video_id = VIDEO
    /\ formatted_text = << >>
    /\ paragraphs = << >>
    /\ fs = {}
    /\ fs0 = {}
    /\ created = FALSE
    /\ messages = << >>
    /\ escaped = "none"
    /\ trace = << >>
    /\ seen = << >>
    /\ cause = "none"
    /\ prev = NoPrev
    /\ changed = FALSE

NextFormat ==
    \/ Format
    \/ Save

SpecFormat == InitFormat /\ [][NextFormat]_vars

-----------------------------------------------------------------------------
(* The claims.                                                             *)

Step(i) == trace[i][1]
Outcome(i) == trace[i][2]
Did(step, outcome) == \E i \in DOMAIN trace : trace[i] = << step, outcome >>

\* C1: for every input, extract_video_id returns the identifier the input's
\* shape calls for (the v value or the /embed/ segment on a youtube.com host,
\* the path on a youtu.be host, the input itself when it is a bare
\* 11-character string) and raises ValueError for every other shape.
\* (SpecResolve)
C1_ResolverAnswersByShape ==
    (trace # << >> /\ Step(1) = "resolve") =>
        IF expect.ok
        THEN Outcome(1) = "ok" /\ video_id = expect.value
        ELSE Outcome(1) = "ValueError"

\* the video as a service call saw it is one whose first-choice language has
\* no track while the language at place k of the list is the first that has
FallbackAt(s, k) ==
    /\ s.fault = "none"
    /\ ~s.disabled
    /\ k \in 2..Len(languages)
    /\ s.tracks[languages[k]].some
    /\ \A j \in 1..(k - 1) : ~s.tracks[languages[j]].some

\* C2: when the first-choice language has no track and a later language of
\* the list has one, get_transcript returns the caption entries of the track
\* of the first language of the list that has one, and not None.  (SpecFetch)
C2_FallbackTrackReturned ==
    (pc = "check" /\ seen # << >>) =>
        \A k \in 2..Len(languages) :
            FallbackAt(seen[Len(seen)], k) =>
                /\ transcript.some
                /\ transcript = seen[Len(seen)].tracks[languages[k]]

C2_Witness ==
    /\ pc = "check"
    /\ seen # << >>
    /\ \E k \in 2..Len(languages) : FallbackAt(seen[Len(seen)], k)
    /\ transcript.some
    /\ transcript.value # << >>

DisabledWarning == Msg("warning", "Subtitles are disabled for this video.", "")

\* C3: whenever a service call of get_transcript, the direct fetch or the
\* fallback listing, raises TranscriptsDisabled, the request shows the
\* dedicated warning and shows no st.error message.
C3_DisabledGetsItsWarning ==
    (\E i \in DOMAIN trace : Outcome(i) = "TranscriptsDisabled") =>
        /\ \E m \in DOMAIN messages : messages[m] = DisabledWarning
        /\ \A m \in DOMAIN messages : messages[m].level # "error"

\* C4: two lookups that fail for different causes among NotFound, Disabled
\* and TransportError never end with the same reported outcome, the value
\* get_transcript returned together with the messages shown.  The lookups
\* compared are those of this request and of the last request that failed.
C4_CausesDistinguishable ==
    ( /\ pc \in Terminal
      /\ cause \in { "NotFound", "Disabled", "TransportError" }
      /\ prev.cause \in { "NotFound", "Disabled", "TransportError" }
      /\ prev.cause # cause ) =>
        << transcript, messages >> # << prev.value, prev.shown >>

\* C5: when the document was rendered and the download was offered, the file
\* <video_id>_transcript.docx does not exist once main has returned.
C5_FileGoneAfterDownload ==
    (pc = "returned" /\ Did("offer", "ok")) => Filename(video_id) \notin fs

C5_Witness ==
    /\ pc = "returned"
    /\ Did("save", "ok")
    /\ Did("offer", "ok")
    /\ Did("remove", "ok")
    /\ created
    /\ Filename(video_id) \notin fs

\* C6: on every way out of a request that wrote its output file, the file
\* has been deleted when the request ends.
C6_NoFileLeftBehind ==
    (pc \in Terminal /\ created) => Filename(video_id) \notin fs

ResolveFailed == \E i \in DOMAIN trace : Step(i) = "resolve" /\ Outcome(i) # "ok"

\* get_transcript was called and main found its result false at line 100
NoTranscript ==
    /\ \E i \in DOMAIN trace : Step(i) \in { "direct", "list" }
    /\ ~(transcript.some /\ transcript.value # << >>)

\* C7: when the resolver fails or the fetcher yields no transcript, the
\* request ends with a message shown (the st.error of line 117, the
\* st.warning of line 115), save_to_docx is not called and no file is
\* written; after a resolver failure the captions service is not called.
C7_FailureLeavesNoArtifact ==
    (pc \in Terminal /\ (ResolveFailed \/ NoTranscript)) =>
        /\ pc = "returned"
        /\ messages # << >>
        /\ messages[Len(messages)].level \in { "error", "warning" }
        /\ NoTranscript =>
             messages[Len(messages)].text = "Transcript not available in Japanese or English."
        /\ \A i \in DOMAIN trace : Step(i) \notin { "format", "save", "open", "offer", "remove" }
        /\ ~created
        /\ fs = fs0
        /\ ResolveFailed => seen = << >>

C7_WitnessInvalidInput ==
    /\ pc = "returned"
    /\ ResolveFailed
    /\ messages # << >>
    /\ seen = << >>

\* C8: every failure of a step ends the request with main returning and a
\* message shown; no exception leaves main.
C8_NoExceptionEscapes ==
    (pc \in Terminal /\ \E i \in DOMAIN trace : Outcome(i) # "ok") =>
        /\ pc = "returned"
        /\ escaped = "none"
        /\ messages # << >>

\* C9: splitting format_transcript(entries) on "\n\n" gives exactly
\* len(entries) segments, the i-th holding the i-th entry's text, and these
\* are the paragraphs save_to_docx writes.  (SpecFormat)
C9_OneParagraphPerEntry ==
    Did("format", "ok") =>
        LET es == transcript.value
            segs == Split(formatted_text, PARAGRAPH_SEP)
        IN  /\ Len(segs) = Len(es)
            /\ \A i \in 1..Len(es) : Contains(segs[i], es[i].text)
            /\ Did("save", "ok") => paragraphs = segs

\* the step that may come right after the step p with outcome o
MayFollow(p, o, s) ==
    \/ p = "resolve" /\ o = "ok" /\ s = "direct"
    \/ p = "direct" /\ o = "NoTranscriptFound" /\ s = "list"
    \/ p \in { "direct", "list" } /\ o = "ok" /\ s = "format"
    \/ p = "format" /\ o = "ok" /\ s = "save"
    \/ p = "save" /\ o = "ok" /\ s = "open"
    \/ p = "open" /\ o = "ok" /\ s = "offer"
    \/ p = "offer" /\ o = "ok" /\ s = "remove"

\* C10: the steps of a request come in the order resolve, fetch, format,
\* render, open and offer, delete, each after the one before it succeeded;
\* the direct fetch comes first and once, the fallback listing at most once
\* and only right after the direct fetch raised NoTranscriptFound.
C10_StepsInOrder ==
    /\ trace # << >> => Step(1) = "resolve"
    /\ \A i \in 2..Len(trace) : MayFollow(Step(i - 1), Outcome(i - 1), Step(i))
    /\ \A i, j \in DOMAIN trace : Step(i) = Step(j) => i = j

C10_Witness ==
    /\ pc = "returned"
    /\ Len(trace) = 8
    /\ Step(3) = "list"
    /\ Step(8) = "remove"

=============================================================================
